---- MODULE Spec2Model ----
(***************************************************************************)
(* Credit and usage-entitlement engine of the EverWith backend:            *)
(* subscription_api.py (check-access, use-credit, purchase-notification),  *)
(* share.py (verify) and feedback.py (share-reward), for one user account. *)
(*                                                                         *)
(* A datetime is the number of whole hours since 00:00 UTC on the first    *)
(* day of the Epoch month; an Optional[datetime] that is None is None.     *)
(***************************************************************************)
EXTENDS Integers, Naturals, Sequences, FiniteSets, TLC

VARIABLES
    now,                  \* datetime.utcnow()
    user,                 \* the stored User document
    usage_logs,           \* the UsageLog collection, in insertion order
    credit_transactions,  \* the CreditTransaction collection (the ledger)
    share_events,         \* the ShareEvent collection
    user_stats,           \* the UserStats document of the user, or NoStats
    transactions,         \* the Transaction collection (purchase notifications)
    reqs,                 \* concurrent use-credit requests in flight
    subscriptions,        \* the Subscription collection, in insertion order
    usage_tracking,       \* the PremiumUsageTracking collection (fair-use records)
    resp                  \* the last completed request: response and its current_user object

vars == <<now, user, usage_logs, credit_transactions, share_events, user_stats,
         transactions, reqs, subscriptions, usage_tracking, resp>>

-----------------------------------------------------------------------------
(* Bounds of the model                                                      *)

MaxInitCredits == 7       \* starting balances 0..MaxInitCredits
MaxMonths == 1            \* month steps taken from the start of a year window
MaxYears == 1             \* one-year jumps of the clock
MaxUsageLogs == 1         \* successful consumes per behaviour of the timed engine
MaxPurchases == 2         \* purchase notifications per behaviour
NumReqs == 4              \* concurrent use-credit requests
MaxShareSteps == 4        \* clock steps of the share tracker
MaxSubscriptions == 3     \* Subscription records per behaviour
MaxProcessed == 2         \* processed images per month on top of the starting count

-----------------------------------------------------------------------------
(* Program constants                                                        *)

FREE_MONTHLY_CREDITS == 3
PREMIUM_SOFT_LIMIT == 100
PREMIUM_CREDITS_ON_UPGRADE == 50
PREMIUM_YEARLY_BONUS == 200
MAX_REWARDS_PER_DAY == 3
COOLDOWN_HOURS == 6

None == -1
NoStats == [total_shares |-> -1, credits_earned_from_shares |-> -1]

Tiers == {"free", "premium_monthly", "premium_yearly"}
PremiumTiers == {"premium_monthly", "premium_yearly"}
Modes == {"restore", "together", "cinematic", "timeline"}

-----------------------------------------------------------------------------
(* Calendar of datetime: .year, .month, .replace(hour=0, ...)               *)

Epoch == [year |-> 2024, month |-> 11]

IsLeap(y) == (y % 4 = 0 /\ y % 100 # 0) \/ y % 400 = 0

DaysInMonth(y, m) ==
    IF m = 2 THEN (IF IsLeap(y) THEN 29 ELSE 28)
    ELSE IF m \in {4, 6, 9, 11} THEN 30 ELSE 31

RECURSIVE YearMonthOf(_, _, _)
YearMonthOf(h, y, m) ==
    IF h < 24 * DaysInMonth(y, m)
    THEN [year |-> y, month |-> m, into |-> h]
    ELSE YearMonthOf(h - 24 * DaysInMonth(y, m),
                     IF m = 12 THEN y + 1 ELSE y,
                     IF m = 12 THEN 1 ELSE m + 1)

\* hours in the n calendar months starting with month m of year y
RECURSIVE HoursOfMonths(_, _, _)
HoursOfMonths(y, m, n) ==
    IF n = 0 THEN 0
    ELSE 24 * DaysInMonth(y, m)
         + HoursOfMonths(IF m = 12 THEN y + 1 ELSE y, IF m = 12 THEN 1 ELSE m + 1, n - 1)

YearOf(t) == YearMonthOf(t, Epoch.year, Epoch.month).year
MonthOf(t) == YearMonthOf(t, Epoch.year, Epoch.month).month
\* the first hour of the calendar month of t
MonthStart(t) == t - YearMonthOf(t, Epoch.year, Epoch.month).into
DayStart(t) == t - (t % 24)
\* months elapsed since the Epoch month
MonthsSinceEpoch(t) == (YearOf(t) - Epoch.year) * 12 + (MonthOf(t) - Epoch.month)

-----------------------------------------------------------------------------
(* Credit configuration                                                     *)

ServiceTypeOf(mode) ==
    IF mode = "restore" THEN "photo_restore"
    ELSE IF mode = "together" THEN "memory_merge"
    ELSE IF mode = "cinematic" THEN "cinematic_filter"
    ELSE "photo_restore"

\* a price list that charges 1 credit for every service
flat_credit_cost(service_type) == 1

get_credit_cost(service_type) ==
    IF service_type = "photo_restore" THEN 1
    ELSE IF service_type = "memory_merge" THEN 2
    ELSE IF service_type = "cinematic_filter" THEN 3
    ELSE 1

CostOf(mode) == get_credit_cost(ServiceTypeOf(mode))

-----------------------------------------------------------------------------
(* Monthly reset helpers: each returns the user object after the call and   *)
(* the boolean the function returns.                                        *)

\* a monthly reset that adds the allotment to the balance
reset_free_adding_allotment(u, t) ==
    IF u.subscription_tier # "free" THEN [user |-> u, reset |-> FALSE]
    ELSE IF u.monthly_credits_reset_date = None
         \/ MonthOf(u.monthly_credits_reset_date) # MonthOf(t)
         \/ YearOf(u.monthly_credits_reset_date) # YearOf(t)
    THEN [user |-> [u EXCEPT !.monthly_credits_reset_date = t,
                             !.credits = @ + FREE_MONTHLY_CREDITS],
          reset |-> TRUE]
    ELSE [user |-> u, reset |-> FALSE]

reset_free_user_monthly_credits(u, t) ==
    IF u.subscription_tier # "free" THEN [user |-> u, reset |-> FALSE]
    ELSE IF u.monthly_credits_reset_date = None
         \/ MonthOf(u.monthly_credits_reset_date) # MonthOf(t)
         \/ YearOf(u.monthly_credits_reset_date) # YearOf(t)
    THEN [user |-> [u EXCEPT !.monthly_credits_reset_date = t,
                             !.credits = FREE_MONTHLY_CREDITS],
          reset |-> TRUE]
    ELSE [user |-> u, reset |-> FALSE]

\* a usage reset that keeps the old watermark
reset_premium_keeping_watermark(u, t) ==
    IF u.subscription_tier \notin PremiumTiers THEN [user |-> u, reset |-> FALSE]
    ELSE IF u.premium_usage_reset_date = None
         \/ MonthOf(u.premium_usage_reset_date) # MonthOf(t)
         \/ YearOf(u.premium_usage_reset_date) # YearOf(t)
    THEN [user |-> [u EXCEPT !.premium_usage_this_month = 0], reset |-> TRUE]
    ELSE [user |-> u, reset |-> FALSE]

reset_premium_usage_tracking(u, t) ==
    IF u.subscription_tier \notin PremiumTiers THEN [user |-> u, reset |-> FALSE]
    ELSE IF u.premium_usage_reset_date = None
         \/ MonthOf(u.premium_usage_reset_date) # MonthOf(t)
         \/ YearOf(u.premium_usage_reset_date) # YearOf(t)
    THEN [user |-> [u EXCEPT !.premium_usage_this_month = 0,
                             !.premium_usage_reset_date = t],
          reset |-> TRUE]
    ELSE [user |-> u, reset |-> FALSE]

\* can_use_feature mutates the user object it is given and returns a bool
can_use_feature(u, credits_needed, t) ==
    IF u.subscription_tier \in PremiumTiers
    THEN LET u1 == reset_premium_usage_tracking(u, t).user
         IN  [user |-> u1, allowed |-> u1.premium_usage_this_month < PREMIUM_SOFT_LIMIT]
    ELSE LET u1 == reset_free_user_monthly_credits(u, t).user
         IN  [user |-> u1, allowed |-> u1.credits >= credits_needed]

-----------------------------------------------------------------------------
(* Response records: one shape for every endpoint                           *)

NoResp(u) ==
    [op |-> "none", mode |-> "none", status |-> 0, ok |-> FALSE,
     remaining_credits |-> 0, used_credit |-> FALSE, credits_used |-> 0,
     credits_awarded |-> 0, already_claimed |-> FALSE, limit_reached |-> FALSE,
     detail |-> "", share_url |-> "none", allowed |-> FALSE, usage_count |-> 0,
     current_user |-> u]

\* check_access: the handler never saves current_user
check_access_body(u, mode, t) ==
    LET r == can_use_feature(u, CostOf(mode), t)
        u2 == IF r.user.subscription_tier \in PremiumTiers
              THEN reset_premium_usage_tracking(r.user, t).user
              ELSE r.user
    IN  [NoResp(u2) EXCEPT !.op = "check_access", !.mode = mode, !.status = 200,
                           !.ok = r.allowed, !.remaining_credits = u2.credits]

\* a limit test that lets the call at the limit through
over_soft_limit(u) == u.premium_usage_this_month > PREMIUM_SOFT_LIMIT

\* use_credit: if current_user.premium_usage_this_month >= PREMIUM_SOFT_LIMIT
at_soft_limit(u) == u.premium_usage_this_month >= PREMIUM_SOFT_LIMIT

\* a balance test that is always passed
always_enough_credits(u, credits_needed) == TRUE

\* use_credit: elif current_user.credits >= credits_needed
has_enough_credits(u, credits_needed) == u.credits >= credits_needed

\* use_credit up to the point where it raises or has changed current_user
use_credit_body(u, mode, t) ==
    LET credits_needed == CostOf(mode)
    IN  IF u.subscription_tier \in PremiumTiers
        THEN LET u1 == reset_premium_usage_tracking(u, t).user
             IN  IF at_soft_limit(u1)
                 THEN [NoResp(u1) EXCEPT !.op = "use_credit", !.mode = mode,
                                         !.status = 429, !.detail = "usage_limit",
                                         !.remaining_credits = u1.credits]
                 ELSE LET u2 == [u1 EXCEPT !.premium_usage_this_month = @ + 1]
                      IN  [NoResp(u2) EXCEPT !.op = "use_credit", !.mode = mode,
                                              !.status = 200, !.ok = TRUE,
                                              !.remaining_credits = u2.credits]
        ELSE IF has_enough_credits(u, credits_needed)
        THEN LET u2 == [u EXCEPT !.credits = @ - credits_needed]
             IN  [NoResp(u2) EXCEPT !.op = "use_credit", !.mode = mode,
                                     !.status = 200, !.ok = TRUE,
                                     !.remaining_credits = u2.credits,
                                     !.used_credit = TRUE,
                                     !.credits_used = credits_needed]
        ELSE [NoResp(u) EXCEPT !.op = "use_credit", !.mode = mode, !.status = 402,
                               !.detail = "insufficient_credits",
                               !.remaining_credits = u.credits]

\* a ledger that books an entry for every use, paid with a credit or not
UsageLedger_for_every_use(r) ==
    <<[credits |-> 0 - r.credits_used, transaction_type |-> "usage",
       transaction_id |-> "none"]>>

\* the ledger entries use_credit inserts for a response
UsageLedger(r) ==
    IF r.used_credit /\ r.credits_used > 0
    THEN <<[credits |-> 0 - r.credits_used, transaction_type |-> "usage",
            transaction_id |-> "none"]>>
    ELSE <<>>

-----------------------------------------------------------------------------
(* Handlers, each run from get_current_user to its return                   *)

CheckAccess(mode) ==
    /\ resp' = check_access_body(user, mode, now)
    /\ UNCHANGED <<subscriptions, usage_tracking, now, user, usage_logs, credit_transactions, share_events, user_stats,
                   transactions, reqs>>

\* a use_credit that logs the usage before it decides
UseCredit_logging_refusals(mode) ==
    LET r == use_credit_body(user, mode, now)
    IN  /\ resp' = r
        /\ usage_logs' = Append(usage_logs, [mode |-> mode, used_credit |-> r.used_credit])
        /\ IF r.status = 200
           THEN /\ credit_transactions' = credit_transactions \o UsageLedger(r)
                /\ user' = r.current_user
           ELSE UNCHANGED <<user, credit_transactions>>
        /\ UNCHANGED <<subscriptions, usage_tracking, now, share_events, user_stats, transactions, reqs>>

UseCredit(mode) ==
    LET r == use_credit_body(user, mode, now)
    IN  /\ resp' = r
        /\ IF r.status = 200
           THEN /\ usage_logs' = Append(usage_logs, [mode |-> mode, used_credit |-> r.used_credit])
                /\ credit_transactions' = credit_transactions \o UsageLedger(r)
                /\ user' = r.current_user
           ELSE UNCHANGED <<user, usage_logs, credit_transactions>>
        /\ UNCHANGED <<subscriptions, usage_tracking, now, share_events, user_stats, transactions, reqs>>

-----------------------------------------------------------------------------
(* purchase_notification                                                    *)

ProductIds == {"premium_monthly", "premium_yearly", "credits_5", "credits_10",
               "credits_25", "credits_50", "other"}
PurchaseTypes == {"subscription", "credit_pack"}
TxnIds == {"t1", "t2"}

\* credit_amounts.get(product_id, 0)
CreditAmount(product_id) ==
    IF product_id = "credits_5" THEN 5
    ELSE IF product_id = "credits_10" THEN 10
    ELSE IF product_id = "credits_25" THEN 25
    ELSE IF product_id = "credits_50" THEN 50
    ELSE 0

LedgerEntry(credits, type, txn) ==
    [credits |-> credits, transaction_type |-> type, transaction_id |-> txn]

\* an upgrade test that takes every buyer for a free user
buyer_always_free(u) == TRUE

\* purchase_notification: was_free_user = current_user.subscription_tier == "free"
buyer_was_free(u) == u.subscription_tier = "free"

\* the user object and the ledger entries after the purchase is applied;
\* no product id of the model contains another, so "x in product_id" is equality
purchase_notification_body(u, product_id, purchase_type, txn, t) ==
    LET was_free_user == buyer_was_free(u)
    IN  IF purchase_type = "subscription"
        THEN IF product_id = "premium_monthly"
             THEN LET u1 == [u EXCEPT !.subscription_tier = "premium_monthly",
                                      !.subscription_expires_at = t + 30 * 24,
                                      !.premium_usage_this_month = 0,
                                      !.premium_usage_reset_date = t]
                  IN  IF was_free_user
                      THEN [user |-> [u1 EXCEPT !.credits = @ + PREMIUM_CREDITS_ON_UPGRADE],
                            ledger |-> <<LedgerEntry(PREMIUM_CREDITS_ON_UPGRADE, "reward", txn)>>]
                      ELSE [user |-> u1, ledger |-> <<>>]
             ELSE IF product_id = "premium_yearly"
             THEN LET u1 == [u EXCEPT !.subscription_tier = "premium_yearly",
                                      !.subscription_expires_at = t + 365 * 24,
                                      !.premium_usage_this_month = 0,
                                      !.premium_usage_reset_date = t]
                  IN  IF was_free_user
                      THEN LET bonus_credits == PREMIUM_CREDITS_ON_UPGRADE + PREMIUM_YEARLY_BONUS
                           IN  [user |-> [u1 EXCEPT !.credits = @ + bonus_credits],
                                ledger |-> <<LedgerEntry(bonus_credits, "reward", txn)>>]
                      ELSE [user |-> [u1 EXCEPT !.credits = @ + PREMIUM_YEARLY_BONUS],
                            ledger |-> <<LedgerEntry(PREMIUM_YEARLY_BONUS, "reward", txn)>>]
             ELSE [user |-> u, ledger |-> <<>>]
        ELSE IF purchase_type = "credit_pack"
        THEN LET credits_to_add == CreditAmount(product_id)
             IN  [user |-> [u EXCEPT !.credits = @ + credits_to_add],
                  ledger |-> <<LedgerEntry(credits_to_add, "purchase", txn)>>]
        ELSE [user |-> u, ledger |-> <<>>]

PurchaseNotification(product_id, purchase_type, txn) ==
    LET r == purchase_notification_body(user, product_id, purchase_type, txn, now)
    IN  /\ transactions' = Append(transactions,
               [product_id |-> product_id, transaction_id |-> txn,
                purchase_type |-> purchase_type])
        /\ user' = r.user
        /\ credit_transactions' = credit_transactions \o r.ledger
        /\ resp' = [NoResp(r.user) EXCEPT !.op = "purchase_notification",
                                          !.mode = product_id, !.status = 200, !.ok = TRUE,
                                          !.remaining_credits = r.user.credits]
        /\ UNCHANGED <<subscriptions, usage_tracking, now, usage_logs, share_events, user_stats, reqs>>

-----------------------------------------------------------------------------
(* The clock                                                                *)

\* a later request arrives in the next calendar month
AdvanceMonth ==
    /\ MonthsSinceEpoch(now) % 12 < MaxMonths
    /\ now' = MonthStart(now) + 24 * DaysInMonth(YearOf(now), MonthOf(now))
    /\ UNCHANGED <<subscriptions, usage_tracking, user, usage_logs, credit_transactions, share_events, user_stats,
                   transactions, reqs, resp>>

\* a later request arrives in the same calendar month of the next year
AdvanceYear ==
    /\ MonthsSinceEpoch(now) < 12 * MaxYears
    /\ now' = MonthStart(now) + HoursOfMonths(YearOf(now), MonthOf(now), 12)
    /\ UNCHANGED <<subscriptions, usage_tracking, user, usage_logs, credit_transactions, share_events, user_stats,
                   transactions, reqs, resp>>

-----------------------------------------------------------------------------
(* The sequential engine: one request at a time, for any stored user        *)

\* the first request arrives at 18:00 on the 30th day of the Epoch month
StartTime == 29 * 24 + 18

\* a User document as the model constructor and the handlers leave it
UserDoc(tier, credits, credits_reset, usage, usage_reset, expires) ==
    [subscription_tier |-> tier, credits |-> credits,
     monthly_credits_reset_date |-> credits_reset,
     premium_usage_this_month |-> usage,
     premium_usage_reset_date |-> usage_reset,
     subscription_expires_at |-> expires]

\* User(): the defaults of the document
NewUser == UserDoc("free", 0, None, 0, None, None)

NoReqs == [r \in 1..NumReqs |-> [pc |-> "idle", mode |-> "none", current_user |-> NewUser,
                                 ok |-> FALSE]]

FreeUsers ==
    {UserDoc("free", c, w, 0, None, None) :
        c \in 0..MaxInitCredits, w \in {None, 0, StartTime}}

PremiumUsers ==
    {UserDoc(tier, c, None, n, w, StartTime + 30 * 24) :
        tier \in PremiumTiers, c \in {0},
        n \in {0, PREMIUM_SOFT_LIMIT - 1, PREMIUM_SOFT_LIMIT}, w \in {None, StartTime}}

InitStores ==
    /\ now = StartTime
    /\ usage_logs = <<>>
    /\ credit_transactions = <<>>
    /\ share_events = <<>>
    /\ user_stats = NoStats
    /\ transactions = <<>>
    /\ reqs = NoReqs
    /\ subscriptions = <<>>
    /\ usage_tracking = {}

Init ==
    /\ InitStores
    /\ user \in FreeUsers \cup PremiumUsers
    /\ resp = NoResp(user)

\* use_credit, as long as the usage log of the behaviour has room for its entry
BoundedUseCredit(mode) ==
    /\ Len(usage_logs) < MaxUsageLogs \/ ~use_credit_body(user, mode, now).ok
    /\ UseCredit(mode)

Next ==
    \/ \E mode \in Modes : CheckAccess(mode)
    \/ \E mode \in Modes : BoundedUseCredit(mode)
    \/ AdvanceMonth
    \/ AdvanceYear

Spec == Init /\ [][Next]_vars

-----------------------------------------------------------------------------
(* Consumes of a free user, one after the other, until the balance is spent *)

InitConsume ==
    /\ InitStores
    /\ user \in {u \in FreeUsers : u.monthly_credits_reset_date = StartTime}
    /\ resp = NoResp(user)

NextConsume == \E mode \in Modes : UseCredit(mode)

SpecConsume == InitConsume /\ [][NextConsume]_vars

-----------------------------------------------------------------------------
(* Properties of the sequential engine                                      *)

\* a step of use_credit that returned or raised
UseCreditStep ==
    /\ resp'.op = "use_credit"
    /\ resp' # resp \/ usage_logs' # usage_logs

CheckAccessStep == resp'.op = "check_access" /\ resp' # resp

\* the billing period of t is later than that of watermark w, or w is unset
InEarlierPeriod(w, t) == w = None \/ MonthsSinceEpoch(w) < MonthsSinceEpoch(t)

\* C1: the stored credits of a user are never below 0, and a free-tier consume
\* whose cost exceeds the balance is rejected with 402 and debits nothing:
\* the user document and the ledger stay as they were.
C1_CreditsNeverNegative ==
    /\ [](user.credits >= 0)
    /\ [][(UseCreditStep /\ user.subscription_tier = "free"
             /\ CostOf(resp'.mode) > user.credits)
          => (resp'.status = 402 /\ ~resp'.ok /\ user' = user
              /\ credit_transactions' = credit_transactions
              /\ usage_logs' = usage_logs)]_vars

\* a consume of a free user was rejected while the balance was positive
C1_Witness ==
    /\ resp.op = "use_credit" /\ resp.status = 402
    /\ user.subscription_tier = "free"
    /\ user.credits > 0 /\ user.credits < CostOf(resp.mode)

\* C3: for the stored user, every service and the current time, consume
\* succeeds exactly when check_access reports allowed.
C3_ConsumeDecidesAsCheckAccess ==
    \A mode \in Modes :
        use_credit_body(user, mode, now).ok = check_access_body(user, mode, now).ok

LaterInSameMonth(t) ==
    {t2 \in {t, t + 1, MonthStart(t) + 24 * DaysInMonth(YearOf(t), MonthOf(t)) - 1} : t2 >= t}

\* C5: once a reset check has run on a user at the current time, running it
\* again at any later time of the same calendar month reports no reset and
\* leaves credits, the usage counter and both watermarks as they were.
C5_ResetIdempotentInPeriod ==
    \A t2 \in LaterInSameMonth(now) :
        LET f == reset_free_user_monthly_credits(user, now).user
            q == reset_premium_usage_tracking(user, now).user
        IN  /\ reset_free_user_monthly_credits(f, t2) = [user |-> f, reset |-> FALSE]
            /\ reset_premium_usage_tracking(q, t2) = [user |-> q, reset |-> FALSE]

\* a reset is due for the stored user: free with a stale credits watermark,
\* or premium with a stale usage watermark and a non-zero counter
C5_Witness ==
    \/ /\ reset_free_user_monthly_credits(user, now).reset
       /\ user.credits # FREE_MONTHLY_CREDITS
       /\ user.monthly_credits_reset_date # None
    \/ /\ reset_premium_usage_tracking(user, now).reset
       /\ user.premium_usage_this_month > 0
       /\ user.premium_usage_reset_date # None

-----------------------------------------------------------------------------
(* A premium user consuming one service from a fresh period up to the soft  *)
(* limit, and on into the following months                                  *)

InitPremium ==
    /\ InitStores
    /\ user \in {UserDoc(tier, 0, None, 0, StartTime, StartTime + 30 * 24) :
                    tier \in PremiumTiers}
    /\ resp = NoResp(user)

PremiumUseCredit == UseCredit("restore")

\* the next month begins once the limit of this one is used up
PremiumRollover ==
    /\ user.premium_usage_this_month >= PREMIUM_SOFT_LIMIT
    /\ AdvanceMonth

NextPremium ==
    \/ PremiumUseCredit
    \/ \E mode \in Modes : CheckAccess(mode)
    \/ PremiumRollover

SpecPremium == InitPremium /\ [][NextPremium]_vars

\* the usage counter as it counts in the period of t
UsageInPeriod(u, t) ==
    IF InEarlierPeriod(u.premium_usage_reset_date, t) THEN 0 ELSE u.premium_usage_this_month

\* C6: starting a period at 0, every consume of a premium user succeeds
\* without a credit while the period's usage is below PREMIUM_SOFT_LIMIT and
\* adds 1 to it; from the limit on it fails with 429 and leaves the user
\* document as it is; the first consume of a later month counts from 0 again.
\* In the first period the successful consumes number the counter, at most 100.
C6_PremiumSoftLimit ==
    /\ [](/\ user.premium_usage_this_month <= PREMIUM_SOFT_LIMIT
          /\ user.premium_usage_reset_date = StartTime
                => Len(usage_logs) = user.premium_usage_this_month)
    /\ [][UseCreditStep =>
            IF UsageInPeriod(user, now) < PREMIUM_SOFT_LIMIT
            THEN /\ resp'.ok /\ resp'.status = 200 /\ ~resp'.used_credit
                 /\ user'.premium_usage_this_month = UsageInPeriod(user, now) + 1
                 /\ user'.credits = user.credits
            ELSE /\ ~resp'.ok /\ resp'.status = 429
                 /\ user' = user
                 /\ user.premium_usage_this_month = PREMIUM_SOFT_LIMIT]_vars

\* the 101st consume of the first period was refused
C6_Witness ==
    /\ resp.op = "use_credit" /\ resp.status = 429
    /\ user.subscription_tier \in PremiumTiers
    /\ user.premium_usage_this_month = PREMIUM_SOFT_LIMIT
    /\ Len(usage_logs) = PREMIUM_SOFT_LIMIT
    /\ MonthsSinceEpoch(now) = 0

-----------------------------------------------------------------------------
(* Purchase notifications delivered to a free or a premium user             *)

InitPurchase ==
    /\ InitStores
    /\ user \in {u \in FreeUsers : u.monthly_credits_reset_date = StartTime}
            \cup {UserDoc(tier, 0, None, 0, StartTime, StartTime + 30 * 24) :
                     tier \in PremiumTiers}
    /\ resp = NoResp(user)

DeliverPurchase(product_id, purchase_type, txn) ==
    /\ Len(transactions) < MaxPurchases
    /\ PurchaseNotification(product_id, purchase_type, txn)

NextPurchase ==
    \E product_id \in ProductIds, purchase_type \in PurchaseTypes, txn \in TxnIds :
        DeliverPurchase(product_id, purchase_type, txn)

SpecPurchase == InitPurchase /\ [][NextPurchase]_vars

\* a step of purchase_notification, and the notification it applied
PurchaseStep == Len(transactions') = Len(transactions) + 1
Applied == transactions'[Len(transactions')]

\* C7: a subscription purchase sets the tier of the product; premium_monthly
\* adds PREMIUM_CREDITS_ON_UPGRADE to the credits of a free buyer and nothing
\* to those of a premium buyer; premium_yearly adds PREMIUM_YEARLY_BONUS to the
\* credits of a premium buyer and both bonuses to those of a free buyer.
C7_UpgradeBonus ==
    [][(PurchaseStep /\ Applied.purchase_type = "subscription"
          /\ Applied.product_id \in PremiumTiers)
       => (/\ user'.subscription_tier = Applied.product_id
           /\ user'.credits - user.credits =
                (IF user.subscription_tier = "free" THEN 50 ELSE 0)
                + (IF Applied.product_id = "premium_yearly" THEN 200 ELSE 0))]_vars

\* a free user with 0 credits bought premium_monthly and holds 50 credits
C7_Witness ==
    /\ Len(transactions) = 1
    /\ transactions[1].purchase_type = "subscription"
    /\ transactions[1].product_id = "premium_monthly"
    /\ user.subscription_tier = "premium_monthly"
    /\ user.credits = PREMIUM_CREDITS_ON_UPGRADE
    /\ Len(credit_transactions) = 1

-----------------------------------------------------------------------------
(* Concurrent use-credit requests of one free user.  A request yields to    *)
(* the others at each await: after get_current_user has loaded the user,    *)
(* and after the inserts that precede current_user.save().                  *)

\* the user of the concurrent requests holds exactly 3 credits
ConcUser == UserDoc("free", FREE_MONTHLY_CREDITS, StartTime, 0, None, None)
ConcModes == {"restore", "together"}

InitConc ==
    /\ InitStores
    /\ user = ConcUser
    /\ resp = NoResp(user)

\* get_current_user: user = await User.find_one(...)
LoadUser(r, mode) ==
    /\ reqs[r].pc = "idle"
    /\ reqs' = [reqs EXCEPT ![r] = [pc |-> "loaded", mode |-> mode,
                                    current_user |-> user, ok |-> FALSE]]
    /\ UNCHANGED <<subscriptions, usage_tracking, now, user, usage_logs, credit_transactions, share_events, user_stats,
                   transactions, resp>>

\* use_credit from its first line to the inserts, on the loaded user object
Decide(r) ==
    /\ reqs[r].pc = "loaded"
    /\ LET b == use_credit_body(reqs[r].current_user, reqs[r].mode, now)
       IN  IF b.status = 200
           THEN /\ usage_logs' = Append(usage_logs,
                                   [mode |-> reqs[r].mode, used_credit |-> b.used_credit])
                /\ credit_transactions' = credit_transactions \o UsageLedger(b)
                /\ reqs' = [reqs EXCEPT ![r].pc = "decided",
                                        ![r].current_user = b.current_user]
                /\ UNCHANGED resp
           ELSE /\ reqs' = [reqs EXCEPT ![r].pc = "done", ![r].ok = FALSE]
                /\ resp' = b
                /\ UNCHANGED <<usage_logs, credit_transactions>>
    /\ UNCHANGED <<subscriptions, usage_tracking, now, user, share_events, user_stats, transactions>>

\* await current_user.save() writes the whole document, then the response
Save(r) ==
    /\ reqs[r].pc = "decided"
    /\ user' = reqs[r].current_user
    /\ reqs' = [reqs EXCEPT ![r].pc = "done", ![r].ok = TRUE]
    /\ resp' = [NoResp(reqs[r].current_user) EXCEPT
                   !.op = "use_credit", !.mode = reqs[r].mode, !.status = 200,
                   !.ok = TRUE, !.remaining_credits = reqs[r].current_user.credits,
                   !.used_credit = (reqs[r].current_user.subscription_tier \notin PremiumTiers),
                   !.credits_used =
                       IF reqs[r].current_user.subscription_tier \in PremiumTiers
                       THEN 0 ELSE CostOf(reqs[r].mode)]
    /\ UNCHANGED <<subscriptions, usage_tracking, now, usage_logs, credit_transactions, share_events, user_stats,
                   transactions>>

NextConc ==
    \/ \E r \in 1..NumReqs, mode \in ConcModes : LoadUser(r, mode)
    \/ \E r \in 1..NumReqs : Decide(r)
    \/ \E r \in 1..NumReqs : Save(r)

SpecConc == InitConc /\ [][NextConc]_vars

\* the credits spent by the requests 1..n that returned success
RECURSIVE SpentBy(_)
SpentBy(n) ==
    IF n = 0 THEN 0
    ELSE SpentBy(n - 1)
         + (IF reqs[n].pc = "done" /\ reqs[n].ok THEN CostOf(reqs[n].mode) ELSE 0)

\* C2: under every interleaving of concurrent consume requests of one user,
\* the consumes that succeed cost together no more than the initial credits:
\* with 3 credits and cost 1 at most 3 succeed.
C2_SuccessesWithinBalance == SpentBy(NumReqs) <= ConcUser.credits

-----------------------------------------------------------------------------
(* Share rewards: share.py verify_share and feedback.py                     *)
(* track_share_and_reward.  A share_url that is None is "none".             *)

SUPPORTED_PLATFORMS == {"instagram", "tiktok"}
REQUIRED_HASHTAG == "#everwithapp"

\* str.lower() on the strings of the model
Lower(str) ==
    IF str = "Instagram" THEN "instagram"
    ELSE IF str = "Love #EverWithApp" THEN "love #everwithapp"
    ELSE IF str = "#EverWithApp" THEN "#everwithapp"
    ELSE str

\* hashtag in caption, for the lower-cased captions of the model
InCaption(hashtag, caption) == hashtag = "#everwithapp" /\ caption = "love #everwithapp"

\* the requests of the model; reachable is the answer of the HEAD request
Payloads ==
    {p \in [platform : {"Instagram", "facebook"},
            share_url : {"none", "u1", "u2"},
            caption : {"", "Love #EverWithApp"},
            hashtags : {<<>>, <<"#EverWithApp">>},
            reachable : BOOLEAN] :
        /\ p.share_url = "none" => p.reachable
        /\ p.caption # "" => p.hashtags = <<>>
        /\ p.platform = "facebook" => (p.share_url = "none" /\ p.caption # "")}

\* _validate_hashtag passes
hashtag_ok(payload) ==
    LET hashtag == Lower(REQUIRED_HASHTAG)
        caption == Lower(payload.caption)
        hashtags == {Lower(payload.hashtags[i]) : i \in 1..Len(payload.hashtags)}
    IN  ~(hashtag \notin hashtags /\ ~InCaption(hashtag, caption))

\* a link check that passes every link
share_url_always_ok(payload) == TRUE

\* _verify_share_url passes: no url, or the HEAD request answered below 400
share_url_ok(payload) == payload.share_url = "none" \/ payload.reachable

\* a duplicate test that looks at the events of the current day only
is_duplicate_today(events, share_url, t) ==
    /\ share_url # "none"
    /\ \E i \in 1..Len(events) :
          events[i].share_url = share_url /\ events[i].created_at >= DayStart(t)

\* verify_share: ShareEvent.find_one(share_url == ..., user_id == ...)
is_duplicate(events, share_url, t) ==
    /\ share_url # "none"
    /\ \E i \in 1..Len(events) : events[i].share_url = share_url

\* verified events of the user created at or after time t0
VerifiedSince(events, t0) ==
    {i \in 1..Len(events) : events[i].created_at >= t0 /\ events[i].verified}

\* a cap test that allows one reward more
daily_count_over_cap(events, t) ==
    Cardinality(VerifiedSince(events, DayStart(t))) > MAX_REWARDS_PER_DAY

\* _enforce_limits: daily_count >= MAX_REWARDS_PER_DAY
daily_cap_reached(events, t) ==
    Cardinality(VerifiedSince(events, DayStart(t))) >= MAX_REWARDS_PER_DAY

\* _enforce_limits: the most recent verified event since the cooldown cutoff,
\* as a set with at most one created_at
recent_share(events, t) ==
    LET S == VerifiedSince(events, t - COOLDOWN_HOURS)
    IN  {events[i].created_at : i \in {j \in S : \A k \in S : events[k].created_at <= events[j].created_at}}

\* a cooldown test with the comparison turned round
cooldown_elapsed(events, t) ==
    \E c \in recent_share(events, t) : c + COOLDOWN_HOURS - t < 0

\* verify_share: recent_share and cooldown_remaining.total_seconds() > 0
in_cooldown(events, t) ==
    \E c \in recent_share(events, t) : c + COOLDOWN_HOURS - t > 0

\* statistics that count the share but not the credit it earned
stats_counting_shares_only(stats) ==
    IF stats # NoStats
    THEN [stats EXCEPT !.total_shares = @ + 1]
    ELSE [total_shares |-> 1, credits_earned_from_shares |-> 0]

\* the UserStats document after a rewarded share
stats_after_share(stats) ==
    IF stats # NoStats
    THEN [stats EXCEPT !.total_shares = @ + 1, !.credits_earned_from_shares = @ + 1]
    ELSE [total_shares |-> 1, credits_earned_from_shares |-> 1]

ShareResp(u, op, payload, status, detail) ==
    [NoResp(u) EXCEPT !.op = op, !.status = status,
                      !.detail = detail, !.share_url = payload.share_url,
                      !.remaining_credits = u.credits]

VerifyShare(payload) ==
    LET platform == Lower(payload.platform)
        denied(status, detail) ==
            /\ resp' = ShareResp(user, "verify_share", payload, status, detail)
            /\ UNCHANGED <<user, share_events, credit_transactions, user_stats>>
    IN  /\ IF platform \notin SUPPORTED_PLATFORMS THEN denied(400, "unsupported_platform")
           ELSE IF ~hashtag_ok(payload) THEN denied(400, "missing_hashtag")
           ELSE IF ~share_url_ok(payload) THEN denied(400, "unreachable_link")
           ELSE IF is_duplicate(share_events, payload.share_url, now)
                THEN denied(400, "duplicate")
           ELSE IF daily_cap_reached(share_events, now) THEN denied(429, "daily_limit")
           ELSE IF in_cooldown(share_events, now)
                THEN /\ resp' = [ShareResp(user, "verify_share", payload, 200, "cooldown")
                                   EXCEPT !.already_claimed = TRUE]
                     /\ UNCHANGED <<user, share_events, credit_transactions, user_stats>>
           ELSE /\ share_events' = Append(share_events,
                       [created_at |-> now, verified |-> TRUE,
                        share_url |-> payload.share_url, platform |-> platform,
                        reward_credits |-> 1])
                /\ user' = [user EXCEPT !.credits = @ + 1]
                /\ credit_transactions' =
                       Append(credit_transactions, LedgerEntry(1, "reward", "none"))
                /\ user_stats' = stats_after_share(user_stats)
                /\ resp' = [ShareResp(user', "verify_share", payload, 200, "rewarded")
                              EXCEPT !.ok = TRUE, !.credits_awarded = 1]
        /\ UNCHANGED <<subscriptions, usage_tracking, now, usage_logs, transactions, reqs>>

\* a cap test of the share-reward endpoint that allows one reward more
reward_count_over_cap(events, t) ==
    Cardinality(VerifiedSince(events, DayStart(t))) > 3

\* track_share_and_reward: recent_shares >= 3
reward_cap_reached(events, t) ==
    Cardinality(VerifiedSince(events, DayStart(t))) >= 3

\* feedback.py track_share_and_reward: the user document is not written
TrackShareAndReward(platform) ==
    LET payload == [platform |-> platform, share_url |-> "none"]
    IN  /\ IF reward_cap_reached(share_events, now)
           THEN /\ resp' = [ShareResp(user, "share_reward", payload, 200, "daily_limit")
                              EXCEPT !.limit_reached = TRUE]
                /\ UNCHANGED <<share_events, credit_transactions, user_stats>>
           ELSE /\ share_events' = Append(share_events,
                       [created_at |-> now, verified |-> TRUE, share_url |-> "none",
                        platform |-> platform, reward_credits |-> 1])
                /\ credit_transactions' =
                       Append(credit_transactions, LedgerEntry(1, "reward", "none"))
                /\ user_stats' = stats_after_share(user_stats)
                /\ resp' = [ShareResp(user, "share_reward", payload, 200, "rewarded")
                              EXCEPT !.ok = TRUE, !.credits_awarded = 1]
        /\ UNCHANGED <<subscriptions, usage_tracking, now, user, usage_logs, transactions, reqs>>

\* the share requests of the model arrive 3 hours apart or together
HourStep == {3}

AdvanceHours(k) ==
    /\ now + k <= StartTime + MaxShareSteps * k
    /\ now' = now + k
    /\ UNCHANGED <<subscriptions, usage_tracking, user, usage_logs, credit_transactions, share_events, user_stats,
                   transactions, reqs, resp>>

InitShare ==
    /\ InitStores
    /\ user = NewUser
    /\ resp = NoResp(user)

NextShare ==
    \/ \E payload \in Payloads : VerifyShare(payload)
    \/ \E platform \in {"instagram"} : TrackShareAndReward(platform)
    \/ \E k \in HourStep : AdvanceHours(k)

SpecShare == InitShare /\ [][NextShare]_vars

-----------------------------------------------------------------------------
(* Properties of the share tracker                                          *)

\* a step of verify_share or track_share_and_reward
ShareStep ==
    /\ resp'.op \in {"verify_share", "share_reward"}
    /\ resp' # resp \/ share_events' # share_events

\* verify_share refused the request before looking at the limits
ValidationDetails == {"unsupported_platform", "missing_hashtag", "unreachable_link", "duplicate"}

\* the verified events created on the calendar day of t
VerifiedOnDayOf(events, t) ==
    {i \in 1..Len(events) :
        events[i].verified /\ DayStart(events[i].created_at) = DayStart(t)}

NothingAwarded ==
    /\ resp'.credits_awarded = 0
    /\ share_events' = share_events
    /\ credit_transactions' = credit_transactions
    /\ user' = user
    /\ user_stats' = user_stats

\* C8: no calendar day holds more than 3 verified share events of the user,
\* and a share request on a day that already holds 3 awards nothing: the
\* share-reward endpoint answers limit_reached, and verify_share answers 429
\* unless it refuses the request for its platform, hashtag or link.
C8_DailyCap ==
    /\ [](\A i \in 1..Len(share_events) :
            Cardinality(VerifiedOnDayOf(share_events, share_events[i].created_at)) <= 3)
    /\ [][(ShareStep /\ Cardinality(VerifiedOnDayOf(share_events, now)) >= 3)
          => (/\ NothingAwarded
              /\ resp'.op = "share_reward" => resp'.limit_reached
              /\ resp'.op = "verify_share" =>
                    \/ resp'.status = 400 /\ resp'.detail \in ValidationDetails
                    \/ resp'.status = 429 /\ resp'.detail = "daily_limit")]_vars

\* three shares were rewarded today and a further request met the daily limit
C8_Witness ==
    /\ Cardinality(VerifiedOnDayOf(share_events, now)) = 3
    /\ resp.detail = "daily_limit"
    /\ \/ resp.op = "share_reward" /\ resp.limit_reached
       \/ resp.op = "verify_share" /\ resp.status = 429

\* the hours since the latest verified share event, or -1 without one
SinceLastVerified(events, t) ==
    LET S == {i \in 1..Len(events) : events[i].verified}
    IN  IF S = {} THEN -1
        ELSE t - events[CHOOSE i \in S : \A j \in S : events[j].created_at <= events[i].created_at].created_at

\* C9: a verify_share that passes the platform, hashtag, link, duplicate and
\* daily-cap checks less than 6 hours after the latest verified share answers
\* 200 with already_claimed, 0 credits awarded and the unchanged balance, and
\* writes nothing: no share event, no ledger entry, same user and statistics.
C9_CooldownDenial ==
    [][(/\ ShareStep /\ resp'.op = "verify_share"
        /\ resp'.detail \notin ValidationDetails \cup {"daily_limit"}
        /\ SinceLastVerified(share_events, now) >= 0
        /\ SinceLastVerified(share_events, now) < 6)
       => (/\ resp'.status = 200 /\ resp'.already_claimed
           /\ resp'.remaining_credits = user.credits
           /\ NothingAwarded)]_vars

\* a request 3 hours after a rewarded share was answered already_claimed
C9_Witness ==
    /\ resp.op = "verify_share" /\ resp.already_claimed /\ resp.credits_awarded = 0
    /\ SinceLastVerified(share_events, now) = 3

\* C10: no two share events of the user carry the same share_url, and a
\* verify_share for a share_url that an event of the user already carries is
\* refused with 400 and awards nothing, whatever the day, cap or cooldown.
C10_UrlRewardedOnce ==
    /\ [](\A i, j \in 1..Len(share_events) :
            (i # j /\ share_events[i].share_url # "none")
               => share_events[i].share_url # share_events[j].share_url)
    /\ [][(/\ ShareStep /\ resp'.op = "verify_share" /\ resp'.share_url # "none"
           /\ \E i \in 1..Len(share_events) : share_events[i].share_url = resp'.share_url)
          => (resp'.status = 400 /\ ~resp'.ok /\ NothingAwarded)]_vars

\* a share_url rewarded on one day was submitted again on a later day, after
\* the cooldown, and refused as a duplicate
C10_Witness ==
    /\ resp.op = "verify_share" /\ resp.detail = "duplicate"
    /\ \E i \in 1..Len(share_events) :
          /\ share_events[i].share_url = resp.share_url
          /\ DayStart(share_events[i].created_at) < DayStart(now)
    /\ SinceLastVerified(share_events, now) >= 6

-----------------------------------------------------------------------------
(* Effects of a consume                                                     *)

\* the price list of the services, by mode
CostTable(mode) ==
    IF mode = "together" THEN 2 ELSE IF mode = "cinematic" THEN 3 ELSE 1

\* C11: a successful consume of a free user for a service of cost c (restore 1,
\* together 2, cinematic 3, any other mode 1) takes exactly c from the credits,
\* reports the new balance, and appends exactly one usage-log entry and one
\* ledger entry of -c credits and type usage.
C11_ConsumeDebitsCost ==
    [][(UseCreditStep /\ user.subscription_tier = "free" /\ resp'.ok)
       => LET c == CostTable(resp'.mode)
          IN  /\ user' = [user EXCEPT !.credits = @ - c]
              /\ resp'.remaining_credits = user.credits - c
              /\ resp'.used_credit /\ resp'.credits_used = c
              /\ usage_logs' = Append(usage_logs, [mode |-> resp'.mode, used_credit |-> TRUE])
              /\ Len(credit_transactions') = Len(credit_transactions) + 1
              /\ credit_transactions'[Len(credit_transactions')].credits = 0 - c
              /\ credit_transactions'[Len(credit_transactions')].transaction_type = "usage"
              /\ SubSeq(credit_transactions', 1, Len(credit_transactions)) = credit_transactions]_vars

\* a free user with 2 credits consumed memory_merge and is left with 0
C11_Witness ==
    /\ resp.op = "use_credit" /\ resp.mode = "together" /\ resp.ok
    /\ resp.remaining_credits = 0 /\ user.credits = 0
    /\ Len(usage_logs) = 1 /\ Len(credit_transactions) = 1
    /\ credit_transactions[1].credits = -2

\* C12: a consume that fails changes nothing: the user document, the usage
\* log and the ledger stay as they were, and the failure is 402 for a free
\* user without the credits and 429 for a premium user at the soft limit.
C12_FailedConsumeChangesNothing ==
    [][(UseCreditStep /\ ~resp'.ok)
       => (/\ user' = user
           /\ usage_logs' = usage_logs
           /\ credit_transactions' = credit_transactions
           /\ IF user.subscription_tier \in PremiumTiers
              THEN /\ resp'.status = 429
                   /\ UsageInPeriod(user, now) >= PREMIUM_SOFT_LIMIT
              ELSE /\ resp'.status = 402
                   /\ user.credits < CostTable(resp'.mode))]_vars

\* a premium user at the soft limit was refused with 429
C12_Witness ==
    /\ resp.op = "use_credit" /\ resp.status = 429 /\ ~resp.ok
    /\ user.subscription_tier \in PremiumTiers
    /\ user.premium_usage_this_month = PREMIUM_SOFT_LIMIT
    /\ usage_logs = <<>> /\ credit_transactions = <<>>

-----------------------------------------------------------------------------
(* Consumes of a premium user who holds credits                             *)

InitPaid ==
    /\ InitStores
    /\ user \in {UserDoc(tier, c, None, n, w, StartTime + 30 * 24) :
                    tier \in PremiumTiers, c \in {0, 2, PREMIUM_CREDITS_ON_UPGRADE},
                    n \in {0, PREMIUM_SOFT_LIMIT - 1, PREMIUM_SOFT_LIMIT},
                    w \in {None, StartTime}}
    /\ resp = NoResp(user)

NextPaid ==
    \/ \E mode \in Modes : BoundedUseCredit(mode)
    \/ AdvanceMonth

SpecPaid == InitPaid /\ [][NextPaid]_vars

\* C13: a consume of a premium user, successful or not, leaves the credits
\* as they were and appends no ledger entry; a successful one adds exactly 1
\* to the usage of the period, changes nothing else of the user but the usage
\* watermark of a new period, and appends one usage-log entry with
\* used_credit = FALSE; a failed one appends no usage-log entry.
C13_PremiumPaysNoCredits ==
    [][(UseCreditStep /\ user.subscription_tier \in PremiumTiers)
       => (/\ user'.credits = user.credits
           /\ resp'.remaining_credits = user.credits
           /\ credit_transactions' = credit_transactions
           /\ resp'.ok =>
                 /\ user' = [user EXCEPT
                        !.premium_usage_this_month = UsageInPeriod(user, now) + 1,
                        !.premium_usage_reset_date =
                            IF InEarlierPeriod(@, now) THEN now ELSE @]
                 /\ usage_logs' = Append(usage_logs,
                                         [mode |-> resp'.mode, used_credit |-> FALSE])
           /\ ~resp'.ok => usage_logs' = usage_logs)]_vars

\* a premium user holding 50 credits consumed the 3-credit service for nothing
C13_Witness ==
    /\ resp.op = "use_credit" /\ resp.mode = "cinematic" /\ resp.ok
    /\ user.subscription_tier \in PremiumTiers
    /\ user.credits = PREMIUM_CREDITS_ON_UPGRADE
    /\ Len(usage_logs) > 0 /\ credit_transactions = <<>>

-----------------------------------------------------------------------------
(* The ledger against the balance                                           *)

\* the sum of the credits of the ledger entries
RECURSIVE LedgerSum(_)
LedgerSum(ledger) ==
    IF ledger = <<>> THEN 0
    ELSE ledger[Len(ledger)].credits + LedgerSum(SubSeq(ledger, 1, Len(ledger) - 1))

\* C14: the credits of the user equal the credits the user started with plus
\* the sum of the credits of all ledger entries appended since.
C14_LedgerReconciles ==
    user.credits = NewUser.credits + LedgerSum(credit_transactions)

-----------------------------------------------------------------------------
(* purchase_notification with store writes that can fail.  The handler      *)
(* awaits transaction.insert(), credit_transaction.insert() and             *)
(* current_user.save() in this order; an exception of any of them is        *)
(* answered with 500.  Request 1 of reqs is the notification in flight.     *)

\* get_current_user, then transaction.insert()
ReceivePurchase(product_id, purchase_type, txn, write_ok) ==
    /\ reqs[1].pc = "idle"
    /\ IF write_ok
       THEN /\ transactions' = Append(transactions,
                   [product_id |-> product_id, transaction_id |-> txn,
                    purchase_type |-> purchase_type])
            /\ reqs' = [reqs EXCEPT ![1] = [pc |-> "logged", mode |-> product_id,
                                            current_user |-> user, ok |-> FALSE]]
            /\ UNCHANGED resp
       ELSE /\ reqs' = [reqs EXCEPT ![1] = [pc |-> "failed", mode |-> product_id,
                                            current_user |-> user, ok |-> FALSE]]
            /\ resp' = [NoResp(user) EXCEPT !.op = "purchase_notification",
                                            !.mode = product_id, !.status = 500]
            /\ UNCHANGED transactions
    /\ UNCHANGED <<subscriptions, usage_tracking, now, user, usage_logs, credit_transactions,
                   share_events, user_stats>>

\* the changes of current_user in memory, then credit_transaction.insert()
BookPurchase(write_ok) ==
    /\ reqs[1].pc = "logged"
    /\ LET request == transactions[Len(transactions)]
           r == purchase_notification_body(reqs[1].current_user, request.product_id,
                                           request.purchase_type, request.transaction_id, now)
       IN  IF r.ledger = <<>> \/ write_ok
           THEN /\ credit_transactions' = credit_transactions \o r.ledger
                /\ reqs' = [reqs EXCEPT ![1].pc = "booked", ![1].current_user = r.user]
                /\ UNCHANGED resp
           ELSE /\ reqs' = [reqs EXCEPT ![1].pc = "failed"]
                /\ resp' = [NoResp(r.user) EXCEPT !.op = "purchase_notification",
                                                  !.mode = request.product_id, !.status = 500]
                /\ UNCHANGED credit_transactions
    /\ UNCHANGED <<subscriptions, usage_tracking, now, user, usage_logs, share_events,
                   user_stats, transactions>>

\* current_user.save(), then the response
SavePurchase(write_ok) ==
    /\ reqs[1].pc = "booked"
    /\ IF write_ok
       THEN /\ user' = reqs[1].current_user
            /\ reqs' = [reqs EXCEPT ![1].pc = "done", ![1].ok = TRUE]
            /\ resp' = [NoResp(reqs[1].current_user) EXCEPT
                           !.op = "purchase_notification", !.mode = reqs[1].mode,
                           !.status = 200, !.ok = TRUE,
                           !.remaining_credits = reqs[1].current_user.credits]
       ELSE /\ reqs' = [reqs EXCEPT ![1].pc = "failed"]
            /\ resp' = [NoResp(reqs[1].current_user) EXCEPT
                           !.op = "purchase_notification", !.mode = reqs[1].mode,
                           !.status = 500]
            /\ UNCHANGED user
    /\ UNCHANGED <<subscriptions, usage_tracking, now, usage_logs, credit_transactions,
                   share_events, user_stats, transactions>>

\* one notification for a user without credits
InitPurchaseFail ==
    /\ InitStores
    /\ user \in {u \in FreeUsers \cup PremiumUsers :
                    u.credits = 0 /\ u.premium_usage_this_month = 0}
    /\ resp = NoResp(user)

NextPurchaseFail ==
    \/ \E product_id \in ProductIds, purchase_type \in PurchaseTypes, txn \in TxnIds,
          write_ok \in BOOLEAN :
            ReceivePurchase(product_id, purchase_type, txn, write_ok)
    \/ \E write_ok \in BOOLEAN : BookPurchase(write_ok)
    \/ \E write_ok \in BOOLEAN : SavePurchase(write_ok)

SpecPurchaseFail == InitPurchaseFail /\ [][NextPurchaseFail]_vars

\* C15: once a purchase notification has been answered, the user and the
\* ledger agree: a notification that failed has left no ledger entry and no
\* change of the user, and one that succeeded has left the user with exactly
\* the credits its ledger entries grant.
C15_PurchaseAllOrNothing ==
    /\ reqs[1].pc = "failed" => (credit_transactions = <<>> /\ user.credits = 0)
    /\ reqs[1].pc = "done" => user.credits = LedgerSum(credit_transactions)

-----------------------------------------------------------------------------
(* Subscription records: create_subscription and cancel_subscription of     *)
(* subscription_api.py, and create_subscription of subscriptions.py, which  *)
(* also takes the lifetime tier                                             *)

SubscribeTiers == {"free", "premium_monthly", "premium_yearly"}
LegacySubscribeTiers == {"free", "monthly", "yearly", "lifetime"}

\* a lookup that finds no record to cancel
no_active_subscriptions(subs) == {}

\* Subscription.find(user_id == current_user, status == ACTIVE)
active_subscriptions(subs) == {i \in 1..Len(subs) : subs[i].status = "active"}

\* the collection after create_subscription, and the status of the response
create_subscription_body(subs, tier, t) ==
    LET monthly == tier \in {"premium_monthly", "monthly"}
        yearly == tier \in {"premium_yearly", "yearly"}
    IN  IF ~(monthly \/ yearly \/ tier = "lifetime")
        THEN [subs |-> subs, status |-> 400]
        ELSE LET end_date == IF monthly THEN t + 30 * 24
                             ELSE IF yearly THEN t + 365 * 24 ELSE None
                 trial_end_date == IF monthly \/ yearly THEN t + 7 * 24 ELSE None
                 existing == active_subscriptions(subs)
                 cancelled == [i \in 1..Len(subs) |->
                                  IF i \in existing
                                  THEN [subs[i] EXCEPT !.status = "cancelled"]
                                  ELSE subs[i]]
             IN  [subs |-> Append(cancelled,
                              [tier |-> tier,
                               status |-> IF trial_end_date # None THEN "trial" ELSE "active",
                               start_date |-> t, end_date |-> end_date,
                               trial_end_date |-> trial_end_date,
                               cancelled_at |-> None, auto_renew |-> TRUE]),
                  status |-> 200]

CreateSubscription(tier) ==
    LET r == create_subscription_body(subscriptions, tier, now)
    IN  /\ subscriptions' = r.subs
        /\ resp' = [NoResp(user) EXCEPT !.op = "create_subscription", !.mode = tier,
                                        !.status = r.status, !.ok = (r.status = 200)]
        /\ UNCHANGED <<usage_tracking, now, user, usage_logs, credit_transactions,
                       share_events, user_stats, transactions, reqs>>

\* POST /subscribe of subscription_api.py
Subscribe(tier) ==
    /\ Len(subscriptions) < MaxSubscriptions
    /\ CreateSubscription(tier)

\* POST /subscribe of subscriptions.py
SubscribeLegacy(tier) ==
    /\ Len(subscriptions) < MaxSubscriptions
    /\ CreateSubscription(tier)

\* find_one(status in [ACTIVE, TRIAL]): the first such record
CancelSubscription ==
    LET live == {i \in 1..Len(subscriptions) :
                    subscriptions[i].status \in {"active", "trial"}}
    IN  /\ IF live = {}
           THEN /\ resp' = [NoResp(user) EXCEPT !.op = "cancel_subscription",
                                                !.status = 404]
                /\ UNCHANGED subscriptions
           ELSE LET i == CHOOSE k \in live : \A j \in live : k <= j
                IN  /\ subscriptions' = [subscriptions EXCEPT ![i].auto_renew = FALSE,
                                                              ![i].cancelled_at = now]
                    /\ resp' = [NoResp(user) EXCEPT !.op = "cancel_subscription",
                                                    !.status = 200, !.ok = TRUE]
        /\ UNCHANGED <<usage_tracking, now, user, usage_logs, credit_transactions,
                       share_events, user_stats, transactions, reqs>>

InitSubscriptions ==
    /\ InitStores
    /\ user \in {NewUser, UserDoc("premium_monthly", 0, None, 0, StartTime, StartTime + 30 * 24)}
    /\ resp = NoResp(user)

NextSubscriptions ==
    \/ \E tier \in SubscribeTiers : Subscribe(tier)
    \/ \E tier \in LegacySubscribeTiers : SubscribeLegacy(tier)
    \/ CancelSubscription

SpecSubscriptions == InitSubscriptions /\ [][NextSubscriptions]_vars

\* the records with status ACTIVE
ActiveRecords(subs) == {i \in 1..Len(subs) : subs[i].status = "active"}

\* C16: at most one Subscription record of the user has status ACTIVE, and a
\* create_subscription that creates a record leaves every record that was
\* ACTIVE before it CANCELLED and the other records as they were.
C16_SingleActive ==
    /\ [](Cardinality(ActiveRecords(subscriptions)) <= 1)
    /\ [][(resp'.op = "create_subscription" /\ resp'.ok
             /\ subscriptions' # subscriptions)
          => (/\ Len(subscriptions') = Len(subscriptions) + 1
              /\ \A i \in 1..Len(subscriptions) :
                    IF subscriptions[i].status = "active"
                    THEN subscriptions'[i] = [subscriptions[i] EXCEPT !.status = "cancelled"]
                    ELSE subscriptions'[i] = subscriptions[i])]_vars

\* an ACTIVE record was cancelled by the creation of the next subscription
C16_Witness ==
    /\ Len(subscriptions) >= 2
    /\ subscriptions[1].tier = "lifetime" /\ subscriptions[1].status = "cancelled"
    /\ resp.op = "create_subscription" /\ resp.ok
    /\ Cardinality(ActiveRecords(subscriptions)) = 1

-----------------------------------------------------------------------------
(* Fair-use tracking (usage_validation.py) and the processing endpoints of  *)
(* image_processing.py.  A PremiumUsageTracking record of the user is       *)
(* [month, usage_count]; the month "YYYY-MM" is the pair <<year, month>>.   *)

SOFT_LIMIT == 100
COOLDOWN_LIMIT == 150

ProcessModes == {"restore", "together", "timeline", "celebrity", "reunite", "family"}

get_current_month(t) == <<YearOf(t), MonthOf(t)>>

\* the store after the call, and the record it returns
get_or_create_usage_tracking(store, month) ==
    IF \E rec \in store : rec.month = month
    THEN [store |-> store, tracking |-> CHOOSE rec \in store : rec.month = month]
    ELSE LET tracking == [month |-> month, usage_count |-> 0]
         IN  [store |-> store \cup {tracking}, tracking |-> tracking]

increment_usage(store, t) ==
    LET g == get_or_create_usage_tracking(store, get_current_month(t))
    IN  (g.store \ {g.tracking}) \cup {[g.tracking EXCEPT !.usage_count = @ + 1]}

\* the fields both status functions compute from the usage count
usage_fields(usage_count) ==
    [usage_count |-> usage_count,
     in_cooldown |-> usage_count >= COOLDOWN_LIMIT,
     at_soft_limit |-> usage_count >= SOFT_LIMIT,
     approaching_limit |-> usage_count * 10 >= SOFT_LIMIT * 8,
     remaining_until_soft_limit |-> IF SOFT_LIMIT - usage_count > 0
                                    THEN SOFT_LIMIT - usage_count ELSE 0,
     remaining_until_cooldown |-> IF COOLDOWN_LIMIT - usage_count > 0
                                  THEN COOLDOWN_LIMIT - usage_count ELSE 0]

\* a throttle that denies once the user is in cooldown
validate_usage_denying_in_cooldown(store, t) ==
    LET g == get_or_create_usage_tracking(store, get_current_month(t))
    IN  [store |-> g.store, status |-> usage_fields(g.tracking.usage_count),
         allowed |-> g.tracking.usage_count < COOLDOWN_LIMIT]

validate_usage(store, t) ==
    LET g == get_or_create_usage_tracking(store, get_current_month(t))
    IN  [store |-> g.store, status |-> usage_fields(g.tracking.usage_count),
         allowed |-> TRUE]

get_usage_status(store, t) ==
    LET g == get_or_create_usage_tracking(store, get_current_month(t))
    IN  [store |-> g.store, status |-> usage_fields(g.tracking.usage_count)]

\* GET /usage-status
GetUsageStatus ==
    LET r == get_usage_status(usage_tracking, now)
    IN  /\ usage_tracking' = r.store
        /\ resp' = [NoResp(user) EXCEPT !.op = "usage_status", !.status = 200, !.ok = TRUE,
                                        !.usage_count = r.status.usage_count]
        /\ UNCHANGED <<subscriptions, now, user, usage_logs, credit_transactions,
                       share_events, user_stats, transactions, reqs>>

\* a processing endpoint: Depends(validate_usage), the pipeline call, then
\* increment_usage and get_usage_status; pipeline_ok is whether the pipeline
\* returned a result
Process(mode, pipeline_ok) ==
    LET v == validate_usage(usage_tracking, now)
    IN  /\ IF pipeline_ok
           THEN LET u == get_usage_status(increment_usage(v.store, now), now)
                IN  /\ usage_tracking' = u.store
                    /\ resp' = [NoResp(user) EXCEPT
                                   !.op = "process", !.mode = mode, !.status = 200,
                                   !.ok = TRUE, !.allowed = v.allowed,
                                   !.usage_count = u.status.usage_count]
           ELSE /\ usage_tracking' = v.store
                /\ resp' = [NoResp(user) EXCEPT
                               !.op = "process", !.mode = mode, !.status = 500,
                               !.detail = "pipeline_failed", !.allowed = v.allowed,
                               !.usage_count = v.status.usage_count]
        /\ UNCHANGED <<subscriptions, now, user, usage_logs, credit_transactions,
                       share_events, user_stats, transactions, reqs>>

\* the usage counts the stored record of the current month starts from
FairUseStarts == {0, 79, 99, 149}

\* the images processed this month on top of the starting count
Processed(store, t) ==
    LET c == get_or_create_usage_tracking(store, get_current_month(t)).tracking.usage_count
    IN  c - (CHOOSE s \in FairUseStarts :
                s <= c /\ \A s2 \in FairUseStarts : s2 <= c => s2 <= s)

BoundedProcess(mode, pipeline_ok) ==
    /\ pipeline_ok => Processed(usage_tracking, now) < MaxProcessed
    /\ Process(mode, pipeline_ok)

InitProcess ==
    /\ now = StartTime
    /\ usage_logs = <<>>
    /\ credit_transactions = <<>>
    /\ share_events = <<>>
    /\ user_stats = NoStats
    /\ transactions = <<>>
    /\ reqs = NoReqs
    /\ subscriptions = <<>>
    /\ usage_tracking \in
          {{}} \cup {{[month |-> get_current_month(StartTime), usage_count |-> n]} :
                        n \in FairUseStarts}
    /\ user \in {NewUser,
                  UserDoc("free", FREE_MONTHLY_CREDITS, StartTime, 0, None, None),
                  UserDoc("premium_monthly", 0, None, 0, StartTime, StartTime + 30 * 24),
                  UserDoc("premium_yearly", 0, None, PREMIUM_SOFT_LIMIT, StartTime,
                          StartTime + 365 * 24)}
    /\ resp = NoResp(user)

NextProcess ==
    \/ \E mode \in ProcessModes, pipeline_ok \in BOOLEAN : BoundedProcess(mode, pipeline_ok)
    \/ GetUsageStatus
    \/ AdvanceMonth

SpecProcess == InitProcess /\ [][NextProcess]_vars

\* the client calls use-credit and the processing endpoints in any order
NextGated ==
    \/ \E mode \in ProcessModes, pipeline_ok \in BOOLEAN : BoundedProcess(mode, pipeline_ok)
    \/ \E mode \in Modes : BoundedUseCredit(mode)

SpecGated == InitProcess /\ [][NextGated]_vars

\* a step of a processing endpoint, and of GET /usage-status
ProcessStep ==
    /\ resp'.op = "process"
    /\ resp' # resp \/ usage_tracking' # usage_tracking

UsageStatusStep ==
    /\ resp'.op = "usage_status"
    /\ resp' # resp \/ usage_tracking' # usage_tracking

\* C17: for every usage count and every tier validate_usage returns
\* allowed = TRUE, and a processing request is answered 200 unless the
\* pipeline itself fails: at no usage count is it refused.
C17_ThrottleNeverDenies ==
    /\ [](validate_usage(usage_tracking, now).allowed)
    /\ [][ProcessStep
            => (/\ resp'.allowed
                /\ \/ resp'.status = 200 /\ resp'.ok
                   \/ resp'.status = 500 /\ resp'.detail = "pipeline_failed")]_vars

\* an image was processed for a user who was already in cooldown
C17_Witness ==
    /\ resp.op = "process" /\ resp.ok /\ resp.allowed
    /\ resp.usage_count > COOLDOWN_LIMIT
    /\ \E rec \in usage_tracking : rec.usage_count > COOLDOWN_LIMIT

\* C18: a call of get_usage_status leaves the fair-use store as it was: the
\* same records with the same usage counts.
C18_StatusIsReadOnly ==
    [][UsageStatusStep => usage_tracking' = usage_tracking]_vars

\* C19: the pipeline of a processing request runs only after a consume for
\* the mode of the request has succeeded and was logged.
C19_ProcessingIsGated ==
    [][ProcessStep
         => \E i \in 1..Len(usage_logs) : usage_logs[i].mode = resp'.mode]_vars

-----------------------------------------------------------------------------
(* The request flow of the clients: each client request calls check-access  *)
(* and, when access is reported, use-credit.  The two calls are separate    *)
(* handler runs, and calls of other requests can come between them.         *)

\* POST /check-access of request r
FlowCheck(r, mode) ==
    /\ reqs[r].pc = "idle"
    /\ LET b == check_access_body(user, mode, now)
       IN  /\ reqs' = [reqs EXCEPT ![r] = [pc |-> IF b.ok THEN "allowed" ELSE "denied",
                                            mode |-> mode, current_user |-> b.current_user,
                                            ok |-> FALSE]]
           /\ resp' = b
    /\ UNCHANGED <<subscriptions, usage_tracking, now, user, usage_logs, credit_transactions,
                   share_events, user_stats, transactions>>

\* POST /use-credit of request r, after its check reported access
FlowConsume(r) ==
    /\ reqs[r].pc = "allowed"
    /\ LET b == use_credit_body(user, reqs[r].mode, now)
       IN  /\ resp' = b
           /\ IF b.status = 200
              THEN /\ usage_logs' = Append(usage_logs,
                                       [mode |-> reqs[r].mode, used_credit |-> b.used_credit])
                   /\ credit_transactions' = credit_transactions \o UsageLedger(b)
                   /\ user' = b.current_user
                   /\ reqs' = [reqs EXCEPT ![r].pc = "consumed", ![r].ok = TRUE,
                                           ![r].current_user = b.current_user]
              ELSE /\ reqs' = [reqs EXCEPT ![r].pc = "consume_failed"]
                   /\ UNCHANGED <<user, usage_logs, credit_transactions>>
    /\ UNCHANGED <<subscriptions, usage_tracking, now, share_events, user_stats, transactions>>

InitFlow ==
    /\ InitStores
    /\ user \in {ConcUser,
                  UserDoc("premium_monthly", 0, None, PREMIUM_SOFT_LIMIT - 1, StartTime,
                          StartTime + 30 * 24)}
    /\ resp = NoResp(user)

NextFlow ==
    \/ \E r \in 1..NumReqs, mode \in ConcModes : FlowCheck(r, mode)
    \/ \E r \in 1..NumReqs : FlowConsume(r)

SpecFlow == InitFlow /\ [][NextFlow]_vars

\* what use-credit answers to a user who has no credits or is at the soft
\* limit: the status and the kind of detail of an ordinary denial
OrdinaryDenials ==
    {<<b.status, b.detail>> :
        b \in {use_credit_body(u, mode, now) :
                  u \in {NewUser,
                         UserDoc("premium_monthly", 0, None, PREMIUM_SOFT_LIMIT, now, None)},
                  mode \in Modes}}

\* C20: a consume that fails after the check of the same request reported
\* access is answered with an outcome other than that of an ordinary
\* insufficient-credits or soft-limit denial.
C20_RaceSurfacedDistinctly ==
    [][\A r \in 1..NumReqs :
          (reqs[r].pc = "allowed" /\ reqs'[r].pc = "consume_failed")
             => <<resp'.status, resp'.detail>> \notin OrdinaryDenials]_vars

-----------------------------------------------------------------------------
(* The balance over time, and repeated purchase notifications               *)

\* C21: the credits of a user go down only by a successful consume of a free
\* user, and then by the cost of the service: no other step lowers the stored
\* balance, and a check_access, with the monthly reset it applies, leaves the
\* balance it works on and reports no lower than the stored one.
C21_CreditsNeverExpire ==
    /\ [][user'.credits < user.credits
            => (/\ UseCreditStep /\ resp'.ok /\ user.subscription_tier = "free"
                /\ user.credits - user'.credits = CostTable(resp'.mode))]_vars
    /\ [][CheckAccessStep
            => (/\ resp'.current_user.credits >= user.credits
                /\ resp'.remaining_credits >= user.credits)]_vars

\* C26: after a check_access the stored user is the user the handler worked
\* on: the stored credits, usage counter and watermarks hold the values of the
\* reset it applied, and the stored credits are those it reported.
C26_ResetIsStored ==
    [][CheckAccessStep
         => (user' = resp'.current_user /\ user'.credits = resp'.remaining_credits)]_vars

\* C22: a purchase notification with the product, purchase type and
\* transaction_id of one delivered before leaves the credits of the user and
\* the ledger as they are.
C22_PurchaseDeliveredOnce ==
    [][(PurchaseStep /\ \E i \in 1..Len(transactions) : transactions[i] = Applied)
         => (user'.credits = user.credits
             /\ credit_transactions' = credit_transactions)]_vars

-----------------------------------------------------------------------------
(* Effects of verify_share, by the request it is given                      *)

\* what is wrong with a request before any limit is looked at
UnsupportedPlatform(p) == p.platform = "facebook"
MissingHashtag(p) == p.caption # "Love #EverWithApp" /\ p.hashtags # <<"#EverWithApp">>
UnreachableLink(p) == p.share_url # "none" /\ ~p.reachable
FailsValidation(p) == UnsupportedPlatform(p) \/ MissingHashtag(p) \/ UnreachableLink(p)

\* the share_url of the request is carried by no event of the user
NewUrl(p) ==
    p.share_url = "none" \/ \A i \in 1..Len(share_events) : share_events[i].share_url # p.share_url

\* C23: a verify_share for a supported platform, with the hashtag, a reachable
\* and new link, below the daily cap and outside the cooldown appends exactly
\* one verified share event, adds exactly 1 to the credits, appends exactly
\* one ledger entry of +1 credit and type reward, counts 1 more share and 1
\* more earned credit in the statistics, and reports 1 credit awarded and the
\* stored balance.
C23_VerifiedShareRewards ==
    [][\A p \in Payloads :
          (/\ VerifyShare(p)
           /\ ~FailsValidation(p) /\ NewUrl(p)
           /\ Cardinality(VerifiedOnDayOf(share_events, now)) < 3
           /\ SinceLastVerified(share_events, now) \notin 0..5)
          => (/\ Len(share_events') = Len(share_events) + 1
              /\ SubSeq(share_events', 1, Len(share_events)) = share_events
              /\ share_events'[Len(share_events')].verified
              /\ share_events'[Len(share_events')].created_at = now
              /\ share_events'[Len(share_events')].share_url = p.share_url
              /\ user' = [user EXCEPT !.credits = @ + 1]
              /\ credit_transactions' =
                    Append(credit_transactions,
                           [credits |-> 1, transaction_type |-> "reward",
                            transaction_id |-> "none"])
              /\ user_stats'.total_shares =
                    (IF user_stats = NoStats THEN 0 ELSE user_stats.total_shares) + 1
              /\ user_stats'.credits_earned_from_shares =
                    (IF user_stats = NoStats THEN 0
                     ELSE user_stats.credits_earned_from_shares) + 1
              /\ resp'.ok /\ resp'.status = 200 /\ ~resp'.already_claimed
              /\ resp'.credits_awarded = 1
              /\ resp'.remaining_credits = user'.credits)]_vars

\* a second share of the user was verified and rewarded
C23_Witness ==
    /\ resp.op = "verify_share" /\ resp.ok /\ resp.credits_awarded = 1
    /\ resp.share_url # "none"
    /\ user.credits = 2 /\ resp.remaining_credits = 2
    /\ user_stats # NoStats /\ user_stats.total_shares = 2

\* C24: a verify_share for an unsupported platform, without the hashtag in
\* the caption or the hashtag list (in any case of letters), or with a link
\* that cannot be reached is refused with 400 and writes nothing: no share
\* event, no ledger entry, same user and statistics; a request with none of
\* these faults is not refused for them.
C24_ShareValidationFailsFast ==
    [][\A p \in Payloads :
          VerifyShare(p)
          => IF FailsValidation(p)
             THEN /\ resp'.status = 400 /\ ~resp'.ok
                  /\ resp'.detail \in {"unsupported_platform", "missing_hashtag",
                                       "unreachable_link"}
                  /\ NothingAwarded
             ELSE resp'.detail \notin {"unsupported_platform", "missing_hashtag",
                                       "unreachable_link"}]_vars

\* after a rewarded share, a request with an unreachable link was refused
C24_Witness ==
    /\ resp.op = "verify_share" /\ resp.status = 400
    /\ resp.detail = "unreachable_link"
    /\ Len(share_events) = 1 /\ user.credits = 1 /\ Len(credit_transactions) = 1

-----------------------------------------------------------------------------
(* A consume overlapping a share reward and a purchase of the same user    *)

\* the request slots of the consumes and share rewards; slot 1 is the purchase
OverlapSlots == {2, 3}

\* the share submitted while other requests are in flight
OverlapPayload ==
    [platform |-> "Instagram", share_url |-> "none", caption |-> "Love #EverWithApp",
     hashtags |-> <<>>, reachable |-> TRUE]

\* get_current_user of a verify_share request
LoadSharer(r) ==
    /\ reqs[r].pc = "idle"
    /\ reqs' = [reqs EXCEPT ![r] = [pc |-> "sharing", mode |-> "share",
                                    current_user |-> user, ok |-> FALSE]]
    /\ UNCHANGED <<subscriptions, usage_tracking, now, user, usage_logs, credit_transactions,
                   share_events, user_stats, transactions, resp>>

\* verify_share from its first line to the response, on the loaded user object
RewardShare(r) ==
    /\ reqs[r].pc = "sharing"
    /\ LET payload == OverlapPayload
           current_user == reqs[r].current_user
           refused == \/ Lower(payload.platform) \notin SUPPORTED_PLATFORMS
                      \/ ~hashtag_ok(payload)
                      \/ ~share_url_ok(payload)
                      \/ is_duplicate(share_events, payload.share_url, now)
                      \/ daily_cap_reached(share_events, now)
                      \/ in_cooldown(share_events, now)
       IN  IF refused
           THEN /\ reqs' = [reqs EXCEPT ![r].pc = "done", ![r].ok = FALSE]
                /\ resp' = ShareResp(current_user, "verify_share", payload, 400, "refused")
                /\ UNCHANGED <<user, share_events, credit_transactions, user_stats>>
           ELSE /\ share_events' = Append(share_events,
                       [created_at |-> now, verified |-> TRUE,
                        share_url |-> payload.share_url,
                        platform |-> Lower(payload.platform), reward_credits |-> 1])
                /\ user' = [current_user EXCEPT !.credits = @ + 1]
                /\ credit_transactions' =
                       Append(credit_transactions, LedgerEntry(1, "reward", "none"))
                /\ user_stats' = stats_after_share(user_stats)
                /\ reqs' = [reqs EXCEPT ![r].pc = "done", ![r].ok = TRUE,
                                        ![r].current_user = user']
                /\ resp' = [ShareResp(user', "verify_share", payload, 200, "rewarded")
                              EXCEPT !.ok = TRUE, !.credits_awarded = 1]
    /\ UNCHANGED <<subscriptions, usage_tracking, now, usage_logs, transactions>>

InitOverlap == InitConc

NextOverlap ==
    \/ \E product_id \in ProductIds, purchase_type \in PurchaseTypes :
          ReceivePurchase(product_id, purchase_type, "t1", TRUE)
    \/ BookPurchase(TRUE)
    \/ SavePurchase(TRUE)
    \/ \E r \in OverlapSlots, mode \in ConcModes : LoadUser(r, mode)
    \/ \E r \in OverlapSlots : Decide(r)
    \/ \E r \in OverlapSlots : Save(r)
    \/ \E r \in OverlapSlots : LoadSharer(r)
    \/ \E r \in OverlapSlots : RewardShare(r)

SpecOverlap == InitOverlap /\ [][NextOverlap]_vars

\* the credits a purchase grants to a buyer who was a free user
GrantOf(product_id, purchase_type) ==
    IF purchase_type = "credit_pack"
    THEN (IF product_id = "credits_5" THEN 5
          ELSE IF product_id = "credits_10" THEN 10
          ELSE IF product_id = "credits_25" THEN 25
          ELSE IF product_id = "credits_50" THEN 50 ELSE 0)
    ELSE IF product_id = "premium_monthly" THEN 50
    ELSE IF product_id = "premium_yearly" THEN 250
    ELSE 0

\* the change of the credits that the completed request in slot r stands for
CompletedDelta(r) ==
    IF ~(reqs[r].pc = "done" /\ reqs[r].ok) THEN 0
    ELSE IF r = 1
         THEN GrantOf(reqs[1].mode, transactions[Len(transactions)].purchase_type)
    ELSE IF reqs[r].mode = "share" THEN 1
    ELSE IF reqs[r].current_user.subscription_tier = "free" THEN 0 - CostTable(reqs[r].mode)
    ELSE 0

\* C25: when a consume, a share reward and a purchase of one user overlap, in
\* every interleaving the stored credits, once no request is in flight, are
\* the initial credits plus every completed grant minus every completed debit.
C25_NoUpdateLost ==
    (\A r \in {1} \cup OverlapSlots : reqs[r].pc \in {"idle", "done"})
    => user.credits = ConcUser.credits + CompletedDelta(1) + CompletedDelta(2)
                      + CompletedDelta(3)

-----------------------------------------------------------------------------
(* Concurrent consumes of one premium user                                  *)

\* a premium user one use below the soft limit, in the current period
ConcPremiumUser ==
    UserDoc("premium_monthly", 0, None, PREMIUM_SOFT_LIMIT - 1, StartTime,
            StartTime + 30 * 24)

InitConcPremium ==
    /\ InitStores
    /\ user = ConcPremiumUser
    /\ resp = NoResp(user)

NextConcPremium ==
    \/ \E r \in 1..NumReqs, mode \in ConcModes : LoadUser(r, mode)
    \/ \E r \in 1..NumReqs : Decide(r)
    \/ \E r \in 1..NumReqs : Save(r)

SpecConcPremium == InitConcPremium /\ [][NextConcPremium]_vars

\* the consume requests that returned success
Succeeded == {r \in 1..NumReqs : reqs[r].pc = "done" /\ reqs[r].ok}

\* C27: under every interleaving of concurrent consumes of one premium user in
\* one period, the uses of the period never exceed PREMIUM_SOFT_LIMIT (100),
\* and once all requests have finished premium_usage_this_month has grown by
\* the number of consumes that succeeded.
C27_SoftLimitUnderConcurrency ==
    /\ ConcPremiumUser.premium_usage_this_month + Cardinality(Succeeded)
          <= PREMIUM_SOFT_LIMIT
    /\ (\A r \in 1..NumReqs : reqs[r].pc \in {"idle", "done"})
          => user.premium_usage_this_month =
               ConcPremiumUser.premium_usage_this_month + Cardinality(Succeeded)

-----------------------------------------------------------------------------
(* Concurrent processing calls of one user and the fair-use counter         *)

\* a processing endpoint up to the end of the pipeline call: the dependencies
\* get_current_user and validate_usage, then the pipeline
StartProcess(r, mode, pipeline_ok) ==
    /\ reqs[r].pc = "idle"
    /\ LET v == validate_usage(usage_tracking, now)
       IN  /\ usage_tracking' = v.store
           /\ IF pipeline_ok
              THEN /\ reqs' = [reqs EXCEPT ![r] = [pc |-> "processed", mode |-> mode,
                                                   current_user |-> user, ok |-> FALSE]]
                   /\ UNCHANGED resp
              ELSE /\ reqs' = [reqs EXCEPT ![r] = [pc |-> "done", mode |-> mode,
                                                   current_user |-> user, ok |-> FALSE]]
                   /\ resp' = [NoResp(user) EXCEPT
                                  !.op = "process", !.mode = mode, !.status = 500,
                                  !.detail = "pipeline_failed", !.allowed = v.allowed,
                                  !.usage_count = v.status.usage_count]
    /\ UNCHANGED <<subscriptions, now, user, usage_logs, credit_transactions,
                   share_events, user_stats, transactions>>

\* increment_usage: tracking = await get_or_create_usage_tracking(user, month)
LoadTracking(r) ==
    /\ reqs[r].pc = "processed"
    /\ LET g == get_or_create_usage_tracking(usage_tracking, get_current_month(now))
       IN  /\ usage_tracking' = g.store
           /\ reqs' = [reqs EXCEPT ![r] = [pc |-> "counting", mode |-> reqs[r].mode,
                                           current_user |-> reqs[r].current_user,
                                           ok |-> FALSE, tracking |-> g.tracking]]
    /\ UNCHANGED <<subscriptions, now, user, usage_logs, credit_transactions,
                   share_events, user_stats, transactions, resp>>

\* increment_usage: tracking.usage_count += 1, await tracking.save(); then
\* get_usage_status and the response
SaveTracking(r) ==
    /\ reqs[r].pc = "counting"
    /\ LET tracking == [reqs[r].tracking EXCEPT !.usage_count = @ + 1]
           saved == {rec \in usage_tracking : rec.month # tracking.month} \cup {tracking}
           u == get_usage_status(saved, now)
       IN  /\ usage_tracking' = u.store
           /\ reqs' = [reqs EXCEPT ![r] = [pc |-> "done", mode |-> reqs[r].mode,
                                           current_user |-> reqs[r].current_user,
                                           ok |-> TRUE]]
           /\ resp' = [NoResp(reqs[r].current_user) EXCEPT
                          !.op = "process", !.mode = reqs[r].mode, !.status = 200,
                          !.ok = TRUE, !.allowed = TRUE,
                          !.usage_count = u.status.usage_count]
    /\ UNCHANGED <<subscriptions, now, user, usage_logs, credit_transactions,
                   share_events, user_stats, transactions>>

\* a user at the start of a month: no usage record yet, or one that counts 0
InitCount ==
    /\ now = StartTime
    /\ usage_logs = <<>>
    /\ credit_transactions = <<>>
    /\ share_events = <<>>
    /\ user_stats = NoStats
    /\ transactions = <<>>
    /\ reqs = NoReqs
    /\ subscriptions = <<>>
    /\ usage_tracking \in
          {{}, {[month |-> get_current_month(StartTime), usage_count |-> 0]}}
    /\ user = NewUser
    /\ resp = NoResp(user)

NextCount ==
    \/ \E r \in 1..NumReqs, mode \in ConcModes, pipeline_ok \in BOOLEAN :
          StartProcess(r, mode, pipeline_ok)
    \/ \E r \in 1..NumReqs : LoadTracking(r)
    \/ \E r \in 1..NumReqs : SaveTracking(r)

SpecCount == InitCount /\ [][NextCount]_vars

\* C28: once the processing calls of one user in one month have all finished,
\* run one after another or at the same time, there is exactly one usage record
\* of the month and its usage_count is the number of calls that succeeded;
\* a call whose pipeline failed is not counted.
C28_EveryCallCountedOnce ==
    ((\A r \in 1..NumReqs : reqs[r].pc \in {"idle", "done"})
       /\ (\E r \in 1..NumReqs : reqs[r].pc = "done"))
    => /\ Cardinality({rec \in usage_tracking : rec.month = get_current_month(now)}) = 1
       /\ \A rec \in usage_tracking :
             rec.month = get_current_month(now)
             => rec.usage_count = Cardinality(Succeeded)

-----------------------------------------------------------------------------
(* The target of a cancellation, and the cooldown over both reward paths    *)

\* C29: after any sequence of create_subscription and cancel_subscription
\* calls of a user at most one subscription record of the user has status
\* active or trial, so a cancellation has one record it can apply to.
C29_UniqueCancellationTarget ==
    Cardinality({i \in 1..Len(subscriptions) :
                    subscriptions[i].status \in {"active", "trial"}}) <= 1

\* C30: after any sequence of share-reward requests through verify_share and
\* track_share_and_reward, any two verified share events of the user were
\* created at least COOLDOWN_HOURS (6) hours apart.
C30_CooldownOnEveryPath ==
    \A i, j \in 1..Len(share_events) :
        (i < j /\ share_events[i].verified /\ share_events[j].verified)
        => share_events[j].created_at - share_events[i].created_at >= COOLDOWN_HOURS

====
